---- MODULE Spec2Model ----
(***************************************************************************)
(* Gilded Rose inventory: the daily update rule engine                     *)
(* (GildedRose::update_quality, src/gilded_rose.rs) together with the      *)
(* classifier and the clamp helpers of src/spec.rs.                        *)
(*                                                                         *)
(* A name is a sequence of one-character strings, so that prefix tests and *)
(* prefix stripping are computed character by character.                   *)
(***************************************************************************)
EXTENDS Integers, Sequences, FiniteSets, TLC

VARIABLES items, day, debug, panicked

vars == <<items, day, debug, panicked>>

----------------------------------------------------------------------------
(* Bounds of the exploration *)

\* largest positive sell_in an item starts with (besides i32::MAX)
MaxSellIn == 12
\* an item starts at most this many days past its sell-by date (besides i32::MIN)
MaxExpired == 2
\* number of simulated days
MaxDays == 5

\* a quality starts at most this far outside [QUALITY_MIN, QUALITY_MAX]
\* (besides i32::MIN and i32::MAX)
MaxOver == 5

----------------------------------------------------------------------------
(* i32 and its saturating arithmetic *)

I32_MAX == 2147483647
I32_MIN == -I32_MAX - 1

\* faulty variant of saturating_sub: i32::wrapping_sub, modulo 2^32
wrapping_sub(a, n) ==
    IF n >= 0
    THEN IF a < I32_MIN + n THEN ((a + I32_MAX) + (I32_MAX - n)) + 2 ELSE a - n
    ELSE IF a > I32_MAX + n THEN ((a - I32_MAX) - (I32_MAX + n)) - 2 ELSE a - n

\* i32::saturating_sub, computed without leaving the i32 range
saturating_sub(a, n) ==
    IF n >= 0
    THEN IF a < I32_MIN + n THEN I32_MIN ELSE a - n
    ELSE IF a > I32_MAX + n THEN I32_MAX ELSE a - n

\* i32::saturating_add, computed without leaving the i32 range
saturating_add(a, n) ==
    IF n >= 0
    THEN IF a > I32_MAX - n THEN I32_MAX ELSE a + n
    ELSE IF a < I32_MIN - n THEN I32_MIN ELSE a + n

\* faulty variant of is_negative: the sell-by day itself counts as expired
is_not_positive(a) == a <= 0

\* i32::is_negative
is_negative(a) == a < 0

Min2(a, b) == IF a <= b THEN a ELSE b
Max2(a, b) == IF a >= b THEN a ELSE b

----------------------------------------------------------------------------
(* Clamp utilities (src/spec.rs) *)

QUALITY_MIN == 0
QUALITY_MAX == 50

\* faulty variant of inc_to_cap: the .min(QUALITY_MAX) is missing
inc_without_cap(q, n) ==
    IF q >= QUALITY_MAX
    THEN q
    ELSE saturating_add(q, n)

inc_to_cap(q, n) ==
    IF q >= QUALITY_MAX
    THEN q
    ELSE Min2(saturating_add(q, n), QUALITY_MAX)

\* faulty variant of dec_to_floor: the result is clamped into the range
dec_clamped(q, n) ==
    Max2(Min2(saturating_sub(q, n), QUALITY_MAX), QUALITY_MIN)

\* faulty variant of dec_to_floor: a step that would cross the floor is skipped
dec_unless_below_floor(q, n) ==
    IF saturating_sub(q, n) < QUALITY_MIN
    THEN q
    ELSE saturating_sub(q, n)

dec_to_floor(q, n) ==
    IF q <= QUALITY_MIN
    THEN q
    ELSE Max2(saturating_sub(q, n), QUALITY_MIN)

----------------------------------------------------------------------------
(* Category classifier (src/spec.rs) *)

NAME_BRIE == <<"A", "g", "e", "d", " ", "B", "r", "i", "e">>
PREFIX_BACKSTAGE == <<"B", "a", "c", "k", "s", "t", "a", "g", "e", " ", "p", "a", "s", "s", "e", "s">>
NAME_SULFURAS == <<"S", "u", "l", "f", "u", "r", "a", "s", ",", " ", "H", "a", "n", "d", " ", "o", "f", " ", "R", "a", "g", "n", "a", "r", "o", "s">>
PREFIX_CONJURED == <<"C", "o", "n", "j", "u", "r", "e", "d", " ">>

\* str::starts_with
starts_with(s, p) ==
    /\ Len(s) >= Len(p)
    /\ \A k \in 1..Len(p) : s[k] = p[k]

\* str::strip_prefix: <<TRUE, rest>> for Some(rest), <<FALSE, s>> for None
strip_prefix(s, p) ==
    IF starts_with(s, p)
    THEN <<TRUE, SubSeq(s, Len(p) + 1, Len(s))>>
    ELSE <<FALSE, s>>

\* faulty variant of KindFrom: Sulfuras is matched by prefix, like the passes
KindFrom_sulfuras_by_prefix(name) ==
    IF name = NAME_BRIE THEN "AgedBrie"
    ELSE IF starts_with(name, NAME_SULFURAS) THEN "Legendary"
    ELSE IF starts_with(name, PREFIX_BACKSTAGE) THEN "BackstagePass"
    ELSE "Normal"

\* impl From<&str> for Kind: the arms of the match, in order
KindFrom(name) ==
    IF name = NAME_BRIE THEN "AgedBrie"
    ELSE IF name = NAME_SULFURAS THEN "Legendary"
    ELSE IF starts_with(name, PREFIX_BACKSTAGE) THEN "BackstagePass"
    ELSE "Normal"

\* faulty variant of split_conjured: the prefix is detected but not stripped
split_conjured_keeps_prefix(name) ==
    LET r == strip_prefix(name, PREFIX_CONJURED)
    IN  IF r[1] THEN <<TRUE, name>> ELSE <<FALSE, name>>

\* split_conjured: <<is_conjured, base_name>>
split_conjured(name) ==
    LET r == strip_prefix(name, PREFIX_CONJURED)
    IN  IF r[1] THEN <<TRUE, r[2]>> ELSE <<FALSE, name>>

\* the kind update_one_item computes for a name (lines 49-51)
KindOf(name) == KindFrom(split_conjured(name)[2])

\* the conjured flag update_one_item computes for a name (line 49)
IsConjured(name) == split_conjured(name)[1]

\* assert_preconditions: TRUE when one of its debug_assert! fails
assert_preconditions_fails(kind, q) ==
    IF kind = "Legendary"
    THEN q # 80
    ELSE ~(q >= QUALITY_MIN /\ q <= QUALITY_MAX)

----------------------------------------------------------------------------
(* Update rule engine (src/gilded_rose.rs) *)

\* let dec_delta = if is_conjured { 2 } else { 1 };
DecDelta(is_conjured) == IF is_conjured THEN 2 ELSE 1

\* faulty variant of SameDayQuality: the bands are (10..), (5..=9), (1..=4)
SameDayQuality_shifted_bands(kind, sell_in, q, dec_delta) ==
    CASE kind = "AgedBrie" -> inc_to_cap(q, 1)
      [] kind = "BackstagePass" /\ sell_in >= 10 -> inc_to_cap(q, 1)
      [] kind = "BackstagePass" /\ sell_in >= 5 /\ sell_in <= 9 -> inc_to_cap(q, 2)
      [] kind = "BackstagePass" /\ sell_in >= 1 /\ sell_in <= 4 -> inc_to_cap(q, 3)
      [] kind = "BackstagePass" /\ sell_in <= 0 -> q
      [] kind = "Normal" -> dec_to_floor(q, dec_delta)

\* faulty variant of SameDayQuality: the conjured delta also scales increases
SameDayQuality_conjured_increase(kind, sell_in, q, dec_delta) ==
    CASE kind = "AgedBrie" -> inc_to_cap(q, 1 * dec_delta)
      [] kind = "BackstagePass" /\ sell_in >= 11 -> inc_to_cap(q, 1 * dec_delta)
      [] kind = "BackstagePass" /\ sell_in >= 6 /\ sell_in <= 10 -> inc_to_cap(q, 2 * dec_delta)
      [] kind = "BackstagePass" /\ sell_in >= 1 /\ sell_in <= 5 -> inc_to_cap(q, 3 * dec_delta)
      [] kind = "BackstagePass" /\ sell_in <= 0 -> q
      [] kind = "Normal" -> dec_to_floor(q, dec_delta)

\* the first match of update_one_item, on (kind, sell_in before the decrement)
SameDayQuality(kind, sell_in, q, dec_delta) ==
    CASE kind = "AgedBrie" -> inc_to_cap(q, 1)
      [] kind = "BackstagePass" /\ sell_in >= 11 -> inc_to_cap(q, 1)
      [] kind = "BackstagePass" /\ sell_in >= 6 /\ sell_in <= 10 -> inc_to_cap(q, 2)
      [] kind = "BackstagePass" /\ sell_in >= 1 /\ sell_in <= 5 -> inc_to_cap(q, 3)
      [] kind = "BackstagePass" /\ sell_in <= 0 -> q
      [] kind = "Normal" -> dec_to_floor(q, dec_delta)

\* faulty variant of ExpiryQuality: an expired pass degrades like a Normal item
ExpiryQuality_pass_degrades(kind, q, dec_delta) ==
    CASE kind = "Normal" -> dec_to_floor(q, dec_delta)
      [] kind = "AgedBrie" -> inc_to_cap(q, 1)
      [] kind = "BackstagePass" -> dec_to_floor(q, dec_delta)

\* faulty variant of ExpiryQuality: an expired Aged Brie gets no second increase
ExpiryQuality_brie_once(kind, q, dec_delta) ==
    CASE kind = "Normal" -> dec_to_floor(q, dec_delta)
      [] kind = "AgedBrie" -> q
      [] kind = "BackstagePass" -> 0

\* the second match of update_one_item, taken when the new sell_in is negative
ExpiryQuality(kind, q, dec_delta) ==
    CASE kind = "Normal" -> dec_to_floor(q, dec_delta)
      [] kind = "AgedBrie" -> inc_to_cap(q, 1)
      [] kind = "BackstagePass" -> 0

\* faulty variant of NextSellIn: the decrement is skipped once expired
NextSellIn_stops_when_expired(sell_in) ==
    IF sell_in < 0 THEN sell_in ELSE saturating_sub(sell_in, 1)

\* it.sell_in = it.sell_in.saturating_sub(1)
NextSellIn(sell_in) == saturating_sub(sell_in, 1)

\* update_one_item, when it does not panic: the item after the call
update_one_item(it) ==
    LET sc == split_conjured(it.name)
        kind == KindFrom(sc[2])
        dec_delta == DecDelta(sc[1])
        q1 == SameDayQuality(kind, it.sell_in, it.quality, dec_delta)
        s1 == NextSellIn(it.sell_in)
        q2 == IF is_negative(s1) THEN ExpiryQuality(kind, q1, dec_delta) ELSE q1
    IN  IF kind = "Legendary"
        THEN it
        ELSE [it EXCEPT !.sell_in = s1, !.quality = q2]

\* update_one_item panics: a checked build, a non-Legendary item, and
\* assert_preconditions fails (the call comes after the Legendary return)
Panics(it) ==
    /\ debug
    /\ KindOf(it.name) # "Legendary"
    /\ assert_preconditions_fails(KindOf(it.name), it.quality)

----------------------------------------------------------------------------
(* The inventory *)

Foo == <<"f", "o", "o">>
HallSuffix == <<" ", "-", " ", "H", "a", "l", "l">>
BareConjured == <<"C", "o", "n", "j", "u", "r", "e", "d">>
LowerSulfuras == <<"s", "u", "l", "f", "u", "r", "a", "s", ",", " ", "h", "a", "n", "d", " ", "o", "f", " ", "r", "a", "g", "n", "a", "r", "o", "s">>
LowerConjuredFoo == <<"c", "o", "n", "j", "u", "r", "e", "d", " ", "f", "o", "o">>
ConjuredAgedBrieNoSpace == <<"C", "o", "n", "j", "u", "r", "e", "d", "A", "g", "e", "d", " ", "B", "r", "i", "e">>

BackstageHall == PREFIX_BACKSTAGE \o HallSuffix
Conjured(name) == PREFIX_CONJURED \o name

\* the names of the items of the inventory, in order
Names ==
    << Foo,
       NAME_BRIE,
       NAME_SULFURAS,
       BackstageHall,
       PREFIX_BACKSTAGE,
       Conjured(Foo),
       Conjured(NAME_BRIE),
       Conjured(NAME_SULFURAS),
       Conjured(BackstageHall),
       Conjured(PREFIX_BACKSTAGE),
       BareConjured,
       PREFIX_CONJURED,
       LowerSulfuras,
       NAME_SULFURAS \o <<" ">>,
       LowerConjuredFoo,
       ConjuredAgedBrieNoSpace >>

Idx == 1..Len(Names)

\* Item::new
Item(name, sell_in, quality) ==
    [name |-> name, sell_in |-> sell_in, quality |-> quality]

SellIns == ((0 - MaxExpired)..MaxSellIn) \cup {I32_MIN, I32_MIN + 1, I32_MAX}

\* qualities of a correctly constructed non-Legendary item
InRange == QUALITY_MIN..QUALITY_MAX

\* GildedRose::new over one item per name: every item starts from the same
\* (sell_in, quality), except that the Legendary items may start from the
\* conventional quality 80
InitWith(Q) ==
    /\ \E s \in SellIns, q \in Q, conventional \in BOOLEAN :
         items = [i \in Idx |->
                    Item(Names[i], s,
                         IF conventional /\ KindOf(Names[i]) = "Legendary"
                         THEN 80 ELSE q)]
    /\ day = 0
    /\ debug \in BOOLEAN
    /\ panicked = FALSE

Init == InitWith(InRange)

\* qualities Item::new accepts: it validates nothing
AnyQuality ==
    ((QUALITY_MIN - MaxOver)..(QUALITY_MAX + MaxOver)) \cup {I32_MIN, I32_MAX}

InitAny == InitWith(AnyQuality)

\* GildedRose::update_quality, called while fewer than `limit` days have
\* passed: one pass over the items, in order; a panic of update_one_item ends
\* the pass and leaves the later items untouched
update_quality_within(limit) ==
    /\ ~panicked
    /\ day < limit
    /\ LET bad == {i \in Idx : Panics(items[i])}
           stop == IF bad = {}
                   THEN Len(items) + 1
                   ELSE CHOOSE i \in bad : \A j \in bad : i <= j
       IN  /\ items' = [i \in Idx |->
                          IF i < stop THEN update_one_item(items[i]) ELSE items[i]]
           /\ panicked' = (bad # {})
    /\ day' = day + 1
    /\ UNCHANGED debug

\* the daily update of a short simulation
update_quality == update_quality_within(MaxDays)

\* the daily update of a simulation long enough for every quality to settle:
\* an item that starts with sell_in <= MaxSellIn and quality <= QUALITY_MAX
\* needs at most (MaxSellIn + QUALITY_MAX + 1) \div 2 days
LongRun == (MaxSellIn + QUALITY_MAX) \div 2 + 1

update_quality_long == update_quality_within(LongRun)

Next == update_quality

Spec == Init /\ [][Next]_vars

\* the same program over items constructed with any quality
SpecAny == InitAny /\ [][Next]_vars

\* starting sell_in values from which the concert passes within the long
\* simulation
LongSellIns == ((0 - MaxExpired)..MaxSellIn) \cup {I32_MIN, I32_MIN + 1}

\* as Init, for the long simulation: Legendary items start from quality 80
InitLong ==
    /\ \E s \in LongSellIns, q \in InRange :
         items = [i \in Idx |->
                    Item(Names[i], s,
                         IF KindOf(Names[i]) = "Legendary" THEN 80 ELSE q)]
    /\ day = 0
    /\ debug \in BOOLEAN
    /\ panicked = FALSE

NextLong == update_quality_long

\* the long simulation: the caller runs the daily update every day (the loop
\* of main), so the update is taken whenever it is enabled
SpecLong == InitLong /\ [][NextLong]_vars /\ WF_vars(NextLong)

----------------------------------------------------------------------------
(* Vocabulary of the properties *)

\* the position of a name in the inventory
IndexOf(name) == CHOOSE i \in Idx : Names[i] = name

\* the items the engine treats as a given kind, conjured or not
IsKind(i, kind) == KindOf(items[i].name) = kind

\* the items the engine treats as Normal and not conjured
PlainNormal(i) == IsKind(i, "Normal") /\ ~IsConjured(items[i].name)

\* the items the engine treats as Normal and conjured
ConjuredNormal(i) == IsKind(i, "Normal") /\ IsConjured(items[i].name)

\* the names whose conjured twin is in the inventory and is not Normal
TwinNames == {NAME_BRIE, BackstageHall, PREFIX_BACKSTAGE, NAME_SULFURAS}

\* an item and its conjured twin hold the same (sell_in, quality)
SameFields(a, b) == a.sell_in = b.sell_in /\ a.quality = b.quality

----------------------------------------------------------------------------
(* C1: quality bounds *)

\* C1: every non-Legendary item that starts with quality in [0, 50] has
\* quality in [0, 50] after every number of updates, for every starting
\* sell_in, and so no update of a checked build fails its precondition.
C1_QualityStaysInRange ==
    /\ \A i \in Idx :
         ~(items[i].name \in {NAME_SULFURAS, Conjured(NAME_SULFURAS)})
            => items[i].quality \in InRange
    /\ ~panicked

\* a checked build, one day after (5, 49): the pass was capped at 50
C1_Witness ==
    /\ debug
    /\ day = 1
    /\ items[IndexOf(BackstageHall)].sell_in = 4
    /\ items[IndexOf(BackstageHall)].quality = 50
    /\ items[IndexOf(Foo)].quality = 48

----------------------------------------------------------------------------
(* C2: Legendary items *)

\* C2: an update never modifies an item named "Sulfuras, Hand of Ragnaros"
\* or "Conjured Sulfuras, Hand of Ragnaros", whatever its sell_in and quality.
C2_LegendaryNeverModified ==
    [][\A i \in Idx :
         items[i].name \in {NAME_SULFURAS, Conjured(NAME_SULFURAS)}
            => items'[i] = items[i]]_vars

\* two days on, both Sulfuras items still hold (-1, 80)
C2_Witness ==
    /\ day = 2
    /\ items[IndexOf(NAME_SULFURAS)].sell_in = -1
    /\ items[IndexOf(NAME_SULFURAS)].quality = 80
    /\ items[IndexOf(Conjured(NAME_SULFURAS))].sell_in = -1
    /\ items[IndexOf(Conjured(NAME_SULFURAS))].quality = 80
    /\ items[IndexOf(Foo)].sell_in = -3

----------------------------------------------------------------------------
(* C3: Normal items *)

\* C3: one update of a non-conjured Normal item with quality q in [0, 50]
\* yields max(q - 1, 0) when sell_in before the update is >= 1 and
\* max(q - 2, 0) when it is <= 0.
C3_NormalDegradation ==
    [][\A i \in Idx :
         (PlainNormal(i) /\ items[i].quality \in InRange)
            => /\ items[i].sell_in >= 1
                  => items'[i].quality = Max2(items[i].quality - 1, 0)
               /\ items[i].sell_in <= 0
                  => items'[i].quality = Max2(items[i].quality - 2, 0)]_vars

\* (1, 10) -> (0, 9) -> (-1, 7)
C3_Witness ==
    /\ day = 2
    /\ items[IndexOf(Foo)].sell_in = -1
    /\ items[IndexOf(Foo)].quality = 7

----------------------------------------------------------------------------
(* C4: Backstage pass bands *)

\* C4: one update of a Backstage pass with quality q in [0, 50] adds 1 when
\* sell_in before the update is >= 11, 2 when it is in 6..10 and 3 when it is
\* in 1..5, capped at 50.
C4_BackstageBands ==
    [][\A i \in Idx :
         (IsKind(i, "BackstagePass") /\ items[i].quality \in InRange)
            => /\ items[i].sell_in >= 11
                  => items'[i].quality = Min2(items[i].quality + 1, 50)
               /\ (items[i].sell_in >= 6 /\ items[i].sell_in <= 10)
                  => items'[i].quality = Min2(items[i].quality + 2, 50)
               /\ (items[i].sell_in >= 1 /\ items[i].sell_in <= 5)
                  => items'[i].quality = Min2(items[i].quality + 3, 50)]_vars

\* (6, 10) -> (5, 12) -> (4, 15)
C4_Witness ==
    /\ day = 2
    /\ items[IndexOf(BackstageHall)].sell_in = 4
    /\ items[IndexOf(BackstageHall)].quality = 15
    /\ items[IndexOf(Foo)].quality = 8

----------------------------------------------------------------------------
(* C5: Backstage pass after the concert *)

\* C5: an update of a Backstage pass that produces a negative sell_in
\* produces quality 0, whatever the quality was, and so does every later
\* update; an update that produces sell_in >= 0 never lowers the quality.
C5_BackstageZeroAfterConcert ==
    [][\A i \in Idx :
         IsKind(i, "BackstagePass")
            => /\ items'[i].sell_in < 0 => items'[i].quality = 0
               /\ items'[i].sell_in >= 0 => items'[i].quality >= items[i].quality]_vars

\* (0, 50) -> (-1, 0) -> (-2, 0): the Normal item went 50 -> 48 -> 46
C5_Witness ==
    /\ day = 2
    /\ items[IndexOf(BackstageHall)].sell_in = -2
    /\ items[IndexOf(BackstageHall)].quality = 0
    /\ items[IndexOf(Foo)].quality = 46

----------------------------------------------------------------------------
(* C6: Aged Brie *)

\* C6: one update of an Aged Brie with quality q in [0, 50] yields
\* min(q + 1, 50) when sell_in before the update is >= 1 and min(q + 2, 50)
\* when it is <= 0; a quality of 50 stays 50.
C6_BrieImproves ==
    [][\A i \in Idx :
         (IsKind(i, "AgedBrie") /\ items[i].quality \in InRange)
            => /\ items[i].sell_in >= 1
                  => items'[i].quality = Min2(items[i].quality + 1, 50)
               /\ items[i].sell_in <= 0
                  => items'[i].quality = Min2(items[i].quality + 2, 50)
               /\ items[i].quality = 50 => items'[i].quality = 50]_vars

\* (0, 49) -> (-1, 50) -> (-2, 50): the Normal item went 49 -> 47 -> 45
C6_Witness ==
    /\ day = 2
    /\ items[IndexOf(NAME_BRIE)].sell_in = -2
    /\ items[IndexOf(NAME_BRIE)].quality = 50
    /\ items[IndexOf(Foo)].quality = 45

----------------------------------------------------------------------------
(* C7: the conjured modifier *)

\* C7: one update of a conjured Normal item with quality q in [0, 50] yields
\* max(q - 2, 0) when sell_in before the update is >= 1 and max(q - 4, 0)
\* when it is <= 0; an Aged Brie, Backstage pass or Legendary item named
\* "Conjured X" that holds the same (sell_in, quality) as the item named X
\* holds the same (sell_in, quality) as it after the update.
C7_ConjuredDoublesDegradationOnly ==
    [][/\ \A i \in Idx :
            (ConjuredNormal(i) /\ items[i].quality \in InRange)
               => /\ items[i].sell_in >= 1
                     => items'[i].quality = Max2(items[i].quality - 2, 0)
                  /\ items[i].sell_in <= 0
                     => items'[i].quality = Max2(items[i].quality - 4, 0)
       /\ \A x \in TwinNames :
            SameFields(items[IndexOf(Conjured(x))], items[IndexOf(x)])
               => SameFields(items'[IndexOf(Conjured(x))], items'[IndexOf(x)])]_vars

\* from (6, 10): "Conjured foo" 10 -> 8 -> 6, both passes 10 -> 12 -> 15,
\* both Bries 10 -> 11 -> 12
C7_Witness ==
    /\ day = 2
    /\ items[IndexOf(Conjured(Foo))].sell_in = 4
    /\ items[IndexOf(Conjured(Foo))].quality = 6
    /\ items[IndexOf(Conjured(BackstageHall))].quality = 15
    /\ items[IndexOf(BackstageHall)].quality = 15
    /\ items[IndexOf(Conjured(NAME_BRIE))].quality = 12
    /\ items[IndexOf(NAME_BRIE)].quality = 12

----------------------------------------------------------------------------
(* C8: sell_in is monotonic *)

\* C8, as stated: for every item and every update, sell_in after the update
\* is <= sell_in before it, and strictly smaller unless sell_in was already
\* the minimum representable value.
C8_Original ==
    [][\A i \in Idx :
         /\ items'[i].sell_in <= items[i].sell_in
         /\ items[i].sell_in # I32_MIN => items'[i].sell_in < items[i].sell_in]_vars

\* C8, amended: for every item and every update, sell_in after the update is
\* <= sell_in before it; for a non-Legendary item it is strictly smaller
\* unless sell_in was already the minimum representable value, and for a
\* Legendary item it is unchanged.
C8_SellInMonotonic ==
    [][\A i \in Idx :
         /\ items'[i].sell_in <= items[i].sell_in
         /\ (~IsKind(i, "Legendary") /\ items[i].sell_in # I32_MIN)
               => items'[i].sell_in < items[i].sell_in
         /\ IsKind(i, "Legendary") => items'[i].sell_in = items[i].sell_in]_vars

\* one day after sell_in -2: the Normal item is at -3, Sulfuras still at -2
C8_Witness ==
    /\ day = 1
    /\ items[IndexOf(Foo)].sell_in = -3
    /\ items[IndexOf(NAME_SULFURAS)].sell_in = -2

----------------------------------------------------------------------------
(* C9: sell_in saturates *)

\* C9: an update of a non-Legendary item whose sell_in is the minimum i32
\* leaves sell_in at that minimum, does not panic, and treats the item as
\* expired: a Normal item loses 2 (conjured: 4), floored at 0, an Aged Brie
\* gains 2, capped at 50, and a Backstage pass goes to 0.
C9_SellInSaturates ==
    [][\A i \in Idx :
         (~IsKind(i, "Legendary") /\ items[i].sell_in = I32_MIN)
            => /\ items'[i].sell_in = I32_MIN
               /\ ~panicked'
               /\ PlainNormal(i)
                     => items'[i].quality = Max2(items[i].quality - 2, 0)
               /\ ConjuredNormal(i)
                     => items'[i].quality = Max2(items[i].quality - 4, 0)
               /\ IsKind(i, "AgedBrie")
                     => items'[i].quality = Min2(items[i].quality + 2, 50)
               /\ IsKind(i, "BackstagePass") => items'[i].quality = 0]_vars

\* one day after (i32::MIN, 10)
C9_Witness ==
    /\ day = 1
    /\ items[IndexOf(Foo)].sell_in = I32_MIN
    /\ items[IndexOf(Foo)].quality = 8
    /\ items[IndexOf(Conjured(Foo))].quality = 6
    /\ items[IndexOf(NAME_BRIE)].quality = 12
    /\ items[IndexOf(BackstageHall)].quality = 0

----------------------------------------------------------------------------
(* C10: names without a base name *)

\* C10: the items named "Conjured " and "Conjured" are both updated as
\* non-conjured Normal items: with quality q in [0, 50] and sell_in >= 1
\* before the update, the update yields max(q - 1, 0).
C10_NoBaseNameIsPlainNormal ==
    [][\A i \in Idx :
         (/\ items[i].name \in {PREFIX_CONJURED, BareConjured}
          /\ items[i].quality \in InRange
          /\ items[i].sell_in >= 1)
            => items'[i].quality = Max2(items[i].quality - 1, 0)]_vars

----------------------------------------------------------------------------
(* C11: classification is exact *)

\* names that differ from a special name only in letter case, by a trailing
\* space, or by a missing space after "Conjured"
NearMissNames ==
    {LowerSulfuras, NAME_SULFURAS \o <<" ">>, LowerConjuredFoo, ConjuredAgedBrieNoSpace}

\* C11: the items named "sulfuras, hand of ragnaros", "Sulfuras, Hand of
\* Ragnaros ", "conjured foo" and "ConjuredAged Brie" are updated as
\* non-conjured Normal items (sell_in one less, quality max(q - 1, 0) before
\* expiry and max(q - 2, 0) from the sell-by day on); the item named exactly
\* "Aged Brie" is updated as an Aged Brie, and the items whose names start
\* with "Backstage passes" (with or without more text) as Backstage passes.
C11_ClassificationExact ==
    [][/\ \A i \in Idx :
            (items[i].name \in NearMissNames /\ items[i].quality \in InRange)
               => /\ items'[i].sell_in = IF items[i].sell_in = I32_MIN
                                         THEN I32_MIN ELSE items[i].sell_in - 1
                  /\ items[i].sell_in >= 1
                        => items'[i].quality = Max2(items[i].quality - 1, 0)
                  /\ items[i].sell_in <= 0
                        => items'[i].quality = Max2(items[i].quality - 2, 0)
       /\ \A i \in Idx :
            (items[i].name = NAME_BRIE /\ items[i].quality \in InRange)
               => items'[i].quality = Min2(items[i].quality
                                             + (IF items[i].sell_in >= 1 THEN 1 ELSE 2), 50)
       /\ \A i \in Idx :
            (items[i].name \in {PREFIX_BACKSTAGE, BackstageHall}
               /\ items[i].quality \in InRange)
               => /\ items[i].sell_in <= 0 => items'[i].quality = 0
                  /\ items[i].sell_in >= 11
                        => items'[i].quality = Min2(items[i].quality + 1, 50)]_vars

\* one day after (1, 10): the four near-miss names are at (0, 9), the Brie
\* at 11 and the pass at 13
C11_Witness ==
    /\ day = 1
    /\ \A n \in NearMissNames :
         items[IndexOf(n)].sell_in = 0 /\ items[IndexOf(n)].quality = 9
    /\ items[IndexOf(NAME_BRIE)].quality = 11
    /\ items[IndexOf(PREFIX_BACKSTAGE)].quality = 13
    /\ items[IndexOf(NAME_SULFURAS)].sell_in = 1

----------------------------------------------------------------------------
(* C12: out-of-range qualities in release builds *)

\* C12: in a release build no update fails; an update leaves a quality above
\* 50 unchanged for an Aged Brie and for a Backstage pass before the concert,
\* leaves a quality below 0 unchanged for a Normal item, and lowers a Normal
\* item's quality above 50 by the ordinary amount (1, conjured 2, twice that
\* from the sell-by day on).
C12_NoHealingInRelease ==
    [][~debug =>
        /\ ~panicked'
        /\ \A i \in Idx :
             /\ (IsKind(i, "AgedBrie") /\ items[i].quality > QUALITY_MAX)
                   => items'[i].quality = items[i].quality
             /\ (IsKind(i, "BackstagePass") /\ items[i].quality > QUALITY_MAX
                    /\ items[i].sell_in >= 1)
                   => items'[i].quality = items[i].quality
             /\ (IsKind(i, "Normal") /\ items[i].quality < QUALITY_MIN)
                   => items'[i].quality = items[i].quality
             /\ (IsKind(i, "Normal") /\ items[i].quality > QUALITY_MAX)
                   => items'[i].quality =
                        items[i].quality
                          - (IF IsConjured(items[i].name) THEN 2 ELSE 1)
                            * (IF items[i].sell_in >= 1 THEN 1 ELSE 2)]_vars

\* a release build, one day after (5, 55): Normal 55 -> 54, Brie and pass
\* still 55
C12_Witness ==
    /\ ~debug
    /\ ~panicked
    /\ day = 1
    /\ items[IndexOf(Foo)].sell_in = 4
    /\ items[IndexOf(Foo)].quality = 54
    /\ items[IndexOf(NAME_BRIE)].quality = 55
    /\ items[IndexOf(BackstageHall)].quality = 55

----------------------------------------------------------------------------
(* C13: the precondition check of checked builds *)

\* C13: in a checked build an update fails exactly when some item is
\* non-Legendary with quality outside [0, 50] before the update, or is
\* Legendary with quality different from 80.
C13_DebugPanicsExactly ==
    [][debug =>
        (panicked' <=>
           \E i \in Idx :
              \/ ~IsKind(i, "Legendary") /\ ~(items[i].quality \in InRange)
              \/ IsKind(i, "Legendary") /\ items[i].quality # 80)]_vars

----------------------------------------------------------------------------
(* C14: every quality settles *)

\* the quality of item i has settled: 0 for a Normal item, 50 for an Aged
\* Brie, 0 after the concert for a Backstage pass
Settled(i) ==
    CASE IsKind(i, "Normal") -> items[i].quality = 0
      [] IsKind(i, "AgedBrie") -> items[i].quality = 50
      [] IsKind(i, "BackstagePass") -> items[i].quality = 0 /\ items[i].sell_in < 0
      [] IsKind(i, "Legendary") -> TRUE

AllSettled == \A i \in Idx : Settled(i)

\* C14: under daily updates every non-Legendary item that starts with
\* quality in [0, 50] reaches its settled quality (Normal and Backstage pass
\* 0, Aged Brie 50) within LongRun updates, and once all have settled an
\* update keeps them settled and changes no quality and no name.
C14_QualitySettles ==
    [][/\ day' = LongRun => AllSettled'
       /\ AllSettled =>
            /\ AllSettled'
            /\ \A i \in Idx : items'[i].quality = items[i].quality
            /\ \A i \in Idx : items'[i].name = items[i].name]_vars

\* 31 days after (12, 50): the Normal item went 50 -> 38 in 12 days and
\* 38 -> 0 in 19 more
C14_Witness ==
    /\ AllSettled
    /\ day = 31
    /\ items[IndexOf(Foo)].sell_in = -19
    /\ items[IndexOf(Foo)].quality = 0
    /\ items[IndexOf(NAME_BRIE)].quality = 50
    /\ items[IndexOf(BackstageHall)].quality = 0

====
